---- MODULE Spec2Model ----
(***************************************************************************)
(* Model of vk_api/audio.py: the pagination protocols of VkAudio           *)
(* (get_iter, get_albums_iter, search, search_iter, get_news_iter,         *)
(* _iter_playlist_by_response, get_audio_by_id) and the module functions   *)
(* scrap_ids and scrap_tracks.  The VK server is the environment: every    *)
(* HTTP response is chosen from a small set of response shapes.            *)
(*                                                                         *)
(* Python strings are modelled by their characters (the empty string is   *)
(* <<>>), str(int) as the decimal digits.  Time is counted in ticks of     *)
(* half a second.                                                          *)
(***************************************************************************)
EXTENDS Integers, Sequences, FiniteSets, TLC

----------------------------------------------------------------------------
(* Bounds of the model *)

\* raw tracks in one page of a playlist
MaxPageLen == 2
\* section / page requests after which the server reports no more pages
MaxPages == 3
\* largest offset argument of search_iter / get_news_iter / search
MaxOffset == 3
\* largest count argument of search
MaxCount == 2
\* longest id list handed directly to scrap_tracks
MaxIds == 21
\* albums on one album page
MaxAlbums == 2
\* audio items on the page of get_audio_by_id
MaxAudioItems == 2
\* non-empty playlists in one response to the updates section
MaxFilled == 2
\* sections of updates served to one iteration
MaxUpdatePages == 2
\* longest track list handed directly to scrap_ids
MaxScrapLen == 3
\* ticks the clock may advance after a reload_audios response
MaxElapsed == 4
\* ticks time.sleep may sleep longer than asked
MaxOversleep == 1
\* the value of time.time() when an operation starts
StartTime == 4

----------------------------------------------------------------------------
(* Program constants *)

\* RPS_DELAY_RELOAD_AUDIO = 1.5 seconds, in half-second ticks
RPS_DELAY_RELOAD_AUDIO == 3
TRACKS_PER_USER_PAGE == 2000
TRACKS_PER_ALBUM_PAGE == 2000
\* the album page size mistaken for the track page size
AlbumsPerPageWrong == TRACKS_PER_USER_PAGE
ALBUMS_PER_USER_PAGE == 100
\* the slice width in scrap_tracks: ids[i:i + 10]
IDS_PER_RELOAD == 10

\* self.user_id, the owner of every track the modelled server serves
UserId == 1
\* the playlist titles: 'Все треки' (search) and 'Новинки' (news)
TitleAllTracks == "AllTracks"
TitleNewSongs == "NewSongs"
\* 'Чарт треков' (popular)
TitleChart == "Chart"
\* get_updates_iter goes on while len(updates) is not below 11
UPDATES_FULL_PAGE == 11

----------------------------------------------------------------------------
(* Pure helpers *)

Min(a, b) == IF a < b THEN a ELSE b

\* The Python values a scraped field can hold: a non-negative int, a string
\* (its characters), None
PyInt(n) == [ty |-> "int", n |-> n, s |-> <<>>]
PyStr(chars) == [ty |-> "str", n |-> 0, s |-> chars]
PyNone == [ty |-> "None", n |-> 0, s |-> <<>>]

DigitChars == <<"0", "1", "2", "3", "4", "5", "6", "7", "8", "9">>

RECURSIVE Digits(_)
\* the decimal digits of a non-negative int
Digits(n) ==
    IF n < 10 THEN <<DigitChars[n + 1]>>
    ELSE Append(Digits(n \div 10), DigitChars[(n % 10) + 1])

\* str(v): the digits of an int, a string itself, 'None' for None
Str(v) ==
    CASE v.ty = "int" -> PyStr(Digits(v.n))
      [] v.ty = "str" -> v
      [] OTHER -> PyStr(<<"N", "o", "n", "e">>)

RECURSIVE ValChars(_)
ValChars(chars) ==
    IF Len(chars) = 0 THEN 0
    ELSE 10 * ValChars(SubSeq(chars, 1, Len(chars) - 1))
         + ((CHOOSE d \in 1..10 : DigitChars[d] = chars[Len(chars)]) - 1)

\* the server's reading of a decimal string
Val(v) == ValChars(v.s)

\* Python truthiness of a string given by its characters
Truthy(s) == Len(s) > 0

\* Python truthiness of a value: a non-zero int, a non-empty string; not None
PyTruthy(v) ==
    CASE v.ty = "int" -> v.n # 0
      [] v.ty = "str" -> Truthy(v.s)
      [] OTHER -> FALSE

\* all(full_id) taken as any(full_id)
AnyTruthy(t) == \E i \in 1..Len(t) : PyTruthy(t[i])

\* all(full_id)
AllTruthy(t) == \A i \in 1..Len(t) : PyTruthy(t[i])

\* a raw track of a playlist's 'list': only track[0], track[1], track[24] are read
RawTrack(id, owner, hash) == [t0 |-> id, t1 |-> owner, t24 |-> hash]

\* full_id = str(track[1]), str(track[0]), track[24]
FullId(track) == <<Str(track.t1), Str(track.t0), track.t24>>

RECURSIVE scrap_ids(_)
scrap_ids(audio_data) ==
    IF Len(audio_data) = 0 THEN <<>>
    ELSE LET full_id == FullId(Head(audio_data))
         IN  (IF AllTruthy(full_id) THEN <<full_id>> ELSE <<>>)
             \o scrap_ids(Tail(audio_data))

\* the number of full groups only
NGroupsFloor(idlist) == Len(idlist) \div IDS_PER_RELOAD

\* range(0, len(ids), 10): the number of groups
NGroups(idlist) == (Len(idlist) + IDS_PER_RELOAD - 1) \div IDS_PER_RELOAD

\* ids[i:i + 10] for the g-th value of i
IdsGroup(idlist, g) ==
    SubSeq(idlist, IDS_PER_RELOAD * (g - 1) + 1, Min(IDS_PER_RELOAD * g, Len(idlist)))

\* delay = RPS_DELAY_RELOAD_AUDIO - (time.time() - last_request)
Delay(t, last) == RPS_DELAY_RELOAD_AUDIO - (t - last)

\* the dict scrap_tracks yields for one entry of result['payload'][1][0]
TrackOf(audio) == [id |-> audio.a0, owner_id |-> audio.a1]

\* the track the server holds for a full id
AudioOf(full_id) == [a0 |-> Val(full_id[2]), a1 |-> Val(full_id[1])]

----------------------------------------------------------------------------
(* Events of the log *)

\* what a response held: its kind, its hasMore, its items, the id and nextOffset
\* of its playlist (sectionId and nextFrom of an updates section), and the track
\* lists of the playlists of an updates section
Resp(kind, more, got, rid, rnext) ==
    [kind |-> kind, more |-> more, got |-> got, rid |-> rid, rnext |-> rnext,
     lists |-> <<>>]

\* a request (act, its two numeric parameters, its audio_ids) and its response
PostEv(act, a, b, idlist, resp) ==
    [e |-> "post", act |-> act, a |-> a, b |-> b, ids |-> idlist, resp |-> resp]

\* an item handed to the consumer
YieldEv(id, owner) ==
    [e |-> "yield", act |-> "", a |-> id, b |-> owner, ids |-> <<>>,
     resp |-> Resp("", FALSE, <<>>, 0, 0)]

\* a track or album as the log names it
Key(id, owner) == <<id, owner>>

----------------------------------------------------------------------------
(* The server: the responses an HTTP request can get *)

\* the hash of a served track: "h", or the empty string of a track without one
Hash(valid) == IF valid THEN PyStr(<<"h">>) ELSE PyStr(<<>>)

\* n raw tracks numbered start+1 .. start+n; the inv-th one has no hash (0: none)
RawList(start, n, inv) ==
    [i \in 1..n |-> RawTrack(PyInt(start + i), PyInt(UserId), Hash(i # inv))]

NoPlaylist ==
    [some |-> FALSE, title |-> "", list |-> <<>>, hasMore |-> FALSE,
     id |-> 0, nextOffset |-> 0]

\* a page of the playlist `title` that starts after track number `start`
PlaylistPages(title, start, mayMore) ==
    UNION { { [some |-> TRUE, title |-> title, list |-> RawList(start, n, inv),
                hasMore |-> hm, id |-> 100 + start, nextOffset |-> start + n] :
                  inv \in {0, n}, hm \in (IF mayMore THEN BOOLEAN ELSE {FALSE}) } :
            n \in 0..MaxPageLen }

\* payload[1][1] is a string: the known error shape
ErrorResponse == [err |-> TRUE, playlists |-> <<>>]

\* the al_audio responses to act=section and act=load_catalog_section: the
\* error shape, a catalog without the wanted playlist, or one that holds a
\* page of it behind a playlist of another title
SectionResponses(title, other, start, mayMore) ==
    {ErrorResponse}
    \cup {[err |-> FALSE,
           playlists |-> <<[NoPlaylist EXCEPT !.some = TRUE, !.title = other]>>]}
    \cup {[err |-> FALSE,
           playlists |-> <<[NoPlaylist EXCEPT !.some = TRUE, !.title = other], p>>] :
            p \in PlaylistPages(title, start, mayMore)}

\* the m.vk.com responses to act=load_section: data[0] falsy, or a page
LoadSectionResponses(start, mayMore) ==
    {[data0 |-> FALSE, list |-> <<>>, hasMore |-> FALSE]}
    \cup UNION { { [data0 |-> TRUE, list |-> RawList(start, n, inv), hasMore |-> hm] :
                      inv \in {0, n}, hm \in (IF mayMore THEN BOOLEAN ELSE {FALSE}) } :
                  n \in 0..MaxPageLen }

\* the bodies of an album page: the empty body, or markup (0) followed by the
\* page's album items (the album's number)
AlbumPages(start, mayMore) ==
    {<<>>}
    \cup {<<0>> \o [i \in 1..n |-> start + i] :
            n \in 0..(IF mayMore THEN MaxAlbums ELSE 0)}

\* the pages of one audio: without the root element, or with audio items, of
\* which the dis-th is disabled (0: none)
AudioPages ==
    {[root |-> FALSE, items |-> <<>>]}
    \cup UNION { { [root |-> TRUE,
                      items |-> [i \in 1..n |->
                                   [disabled |-> (i = dis), a0 |-> PyInt(i),
                                    a1 |-> PyInt(UserId),
                                    h2 |-> PyStr(<<"h">>), h5 |-> PyStr(<<"g">>)]]] :
                      dis \in {0, n} } :
                  n \in 0..MaxAudioItems }

\* the track lists of n update playlists served after track number start: the
\* last k are non-empty and hold two tracks each, the others are empty; with
\* inv = 1 the first track of the first non-empty one has no hash
UpdateLists(start, n, k, inv) ==
    [i \in 1..n |->
       IF i <= n - k THEN <<>>
       ELSE <<RawTrack(PyInt(start + 2 * i - 1), PyInt(UserId),
                       Hash(~(inv = 1 /\ i = n - k + 1))),
              RawTrack(PyInt(start + 2 * i), PyInt(UserId), Hash(TRUE))>>]

NoJson == [err |-> FALSE, playlists |-> <<>>, sectionId |-> 0, nextFrom |-> 0]

\* the al_audio responses to section=updates and to its continuation: the
\* error shape, or a section of 0, 1, 10, 11 or 12 playlists
UpdatesResponses(start, mayMore) ==
    {[NoJson EXCEPT !.err = TRUE]}
    \cup UNION { UNION { { [err |-> FALSE,
                            playlists |-> [i \in 1..n |->
                                             [list |-> UpdateLists(start, n, k, inv)[i]]],
                            sectionId |-> 300 + start,
                            nextFrom |-> start + 2 * n] :
                            inv \in 0..Min(k, 1) } :
                        k \in 0..Min(n, MaxFilled) } :
                  n \in {0, 1, UPDATES_FULL_PAGE - 1}
                        \cup (IF mayMore
                              THEN {UPDATES_FULL_PAGE, UPDATES_FULL_PAGE + 1}
                              ELSE {}) }

\* the AudioPage json of the explore page of get_popular_iter: with the chart
\* playlist, or without it (None) and with the id of its section
PopularResponses ==
    {[playlist |-> NoPlaylist, sectionId |-> 400]}
    \cup UNION { { [playlist |-> [some |-> TRUE, title |-> TitleChart,
                                  list |-> RawList(0, n, inv), hasMore |-> FALSE,
                                  id |-> 100, nextOffset |-> n],
                    sectionId |-> 400] :
                    inv \in {0, n} } :
                  n \in 0..MaxPageLen }

\* the tracks scrap_ids is handed in the direct call: complete; with the owner
\* None; with the id '', the owner '', the hash '' or the hash None; with
\* nothing but None and ''
TrackShapes ==
    {[t0 |-> PyInt(1), t1 |-> PyInt(UserId), t24 |-> PyStr(<<"h">>)],
     [t0 |-> PyInt(1), t1 |-> PyNone, t24 |-> PyStr(<<"h">>)],
     [t0 |-> PyStr(<<>>), t1 |-> PyInt(UserId), t24 |-> PyStr(<<"h">>)],
     [t0 |-> PyInt(1), t1 |-> PyStr(<<>>), t24 |-> PyStr(<<"h">>)],
     [t0 |-> PyInt(1), t1 |-> PyInt(UserId), t24 |-> PyStr(<<>>)],
     [t0 |-> PyInt(1), t1 |-> PyInt(UserId), t24 |-> PyNone],
     [t0 |-> PyStr(<<>>), t1 |-> PyNone, t24 |-> PyNone]}

\* the track lists scrap_ids is handed in the direct call; a track with an id
\* has its place in the list as its id
ScrapInputs ==
    UNION { { [i \in 1..n |->
                 RawTrack(IF f[i].t0.ty = "int" THEN PyInt(i) ELSE f[i].t0,
                          f[i].t1, f[i].t24)] :
                f \in [1..n -> TrackShapes] } :
            n \in 0..MaxScrapLen }

\* the reload_audios responses: a falsy payload, or the requested tracks
ReloadResponses(idgroup) ==
    {[payload |-> FALSE, audios |-> <<>>],
     [payload |-> TRUE, audios |-> [i \in 1..Len(idgroup) |-> AudioOf(idgroup[i])]]}

\* the log's record of each kind of response
ReloadResp(r) ==
    Resp(IF r.payload THEN "payload" ELSE "empty", FALSE,
         [i \in 1..Len(r.audios) |-> Key(r.audios[i].a0, r.audios[i].a1)], 0, 0)

IdKeys(idlist) == [i \in 1..Len(idlist) |-> Key(Val(idlist[i][2]), Val(idlist[i][1]))]

----------------------------------------------------------------------------
(* More of the program's pure functions *)

\* [a for a in soup.find_all(... 'audioPlaylistsPage__item')]: the album items
RECURSIVE scrap_albums(_)
scrap_albums(html) ==
    IF Len(html) = 0 THEN <<>>
    ELSE (IF Head(html) > 0 THEN <<[id |-> Head(html), owner_id |-> UserId]>> ELSE <<>>)
         \o scrap_albums(Tail(html))

RECURSIVE ScrapItems(_)
ScrapItems(items) ==
    IF Len(items) = 0 THEN <<>>
    ELSE LET d == Head(items)
             full_id == <<Str(d.a1), Str(d.a0), d.h2, d.h5>>
         IN  (IF ~d.disabled /\ AllTruthy(full_id) THEN <<full_id>> ELSE <<>>)
             \o ScrapItems(Tail(items))

\* the ids of the audio items under the root element (the caller raises
\* ValueError when there is no root element)
scrap_ids_from_html(html) == ScrapItems(html.items)

\* the first playlist whose title is in targets, or None; raise: the error shape
get_target_playlist_from_json(json_data, targets) ==
    IF json_data.err
    THEN [raise |-> TRUE, playlist |-> NoPlaylist]
    ELSE LET hits == {i \in 1..Len(json_data.playlists) :
                        json_data.playlists[i].title \in targets}
         IN  [raise |-> FALSE,
              playlist |-> IF hits = {} THEN NoPlaylist
                           ELSE json_data.playlists[
                                  CHOOSE i \in hits : \A j \in hits : i <= j]]

\* ids[n:]
Drop(s, n) == SubSeq(s, n + 1, Len(s))

\* the log's record of an al_audio section response
SectionResp(r, targets) ==
    LET got == get_target_playlist_from_json(r, targets)
    IN  IF got.raise THEN Resp("err", FALSE, <<>>, 0, 0)
        ELSE IF ~got.playlist.some THEN Resp("none", FALSE, <<>>, 0, 0)
        ELSE Resp("page", got.playlist.hasMore, IdKeys(scrap_ids(got.playlist.list)),
                  got.playlist.id, got.playlist.nextOffset)

\* the log's record of a load_section response
LoadSectionResp(r) ==
    IF ~r.data0 THEN Resp("denied", FALSE, <<>>, 0, 0)
    ELSE Resp("page", r.hasMore, IdKeys(scrap_ids(r.list)), 0, 0)

\* the log's record of an album page
AlbumsResp(text) ==
    IF ~Truthy(text) THEN Resp("denied", FALSE, <<>>, 0, 0)
    ELSE Resp("page", FALSE,
              [i \in 1..Len(scrap_albums(text)) |->
                 Key(scrap_albums(text)[i].id, scrap_albums(text)[i].owner_id)], 0, 0)

\* bool(generator object): a generator is always truthy
GeneratorTruthy == TRUE

\* islice that compares with <= instead of <
IsliceWantsOneMore(cnt, stop) == cnt <= stop

\* islice(iterable, count) asks for the next item only while cnt < count
IsliceWants(cnt, stop) == cnt < stop

----------------------------------------------------------------------------
(* State *)

VARIABLES
    op,            \* the operation the caller runs
    pc,            \* where the operation stands
    ret,           \* where the caller of scrap_tracks goes on when it is exhausted
    offset,        \* the offset argument
    count,         \* the count argument of search
    album_id,      \* the album_id argument of get_iter (0: None)
    playlist,      \* _iter_playlist_by_response: playlist
    ids,           \* the caller's ids
    offset_left,   \* _iter_playlist_by_response: offset_left
    page_offset,   \* get_iter / get_albums_iter: offset
    has_more,      \* get_iter: response['data'][0]['hasMore']
    albums,        \* get_albums_iter: the albums still to yield
    json_response, \* get_updates_iter / get_popular_iter: json_response
    audio_data,    \* the audio_data argument of scrap_ids
    st_ids,        \* scrap_tracks: ids
    group,         \* scrap_tracks: the number of the current ids_group
    delay,         \* scrap_tracks: delay
    result,        \* scrap_tracks: result
    data_audio,    \* scrap_tracks: the audios of the response still to yield
    last_request,  \* scrap_tracks: last_request
    now,           \* time.time()
    t_send,        \* when the latest reload_audios request was sent
    t_recv,        \* when the latest reload_audios response arrived
    t_prev,        \* when the response before the latest request arrived
    log,           \* the requests sent and the items yielded, in order
    exc,           \* the exception that ended the operation
    retval         \* what get_audio_by_id returned

vars == <<op, pc, ret, offset, count, album_id, playlist, ids, offset_left,
          page_offset, has_more, albums, json_response, audio_data, st_ids, group, delay, result, data_audio,
          last_request, now, t_send, t_recv, t_prev, log, exc, retval>>

callerVars == <<playlist, ids, offset_left, page_offset, has_more, albums>>
scrapVars == <<st_ids, group, delay, result, data_audio, last_request>>
clockVars == <<now, t_send, t_recv, t_prev>>
argVars == <<op, offset, count, album_id, audio_data>>

IterOps == {"search_iter", "get_news_iter", "search"}
Ops == IterOps \cup {"get_iter", "get_albums_iter", "get_audio_by_id", "scrap_tracks",
                     "get_updates_iter", "get_popular_iter", "scrap_ids"}

\* the title the operation looks for, and a title that is not among its targets
Wanted(o) ==
    CASE o = "get_news_iter" -> TitleNewSongs
      [] o = "get_popular_iter" -> TitleChart
      [] OTHER -> TitleAllTracks
Targets(o) == {Wanted(o)}
Unwanted(o) == IF o = "get_news_iter" THEN TitleAllTracks ELSE TitleNewSongs

\* the ids a caller of scrap_tracks passes in the direct call: n ids of tracks 1..n
DirectIds(n) == scrap_ids(RawList(0, n, 0))

NoResult == [payload |-> FALSE, audios |-> <<>>]
NoRetval == [kind |-> "none", track |-> <<>>]

SectionActs == {"section", "load_catalog_section", "load_section", "audio_playlists",
                "explore"}

\* the section / page requests sent so far
NPages == Cardinality({i \in 1..Len(log) : log[i].e = "post" /\ log[i].act \in SectionActs})

\* whether the response to the request being sent may announce more pages
MayMore == NPages + 1 < MaxPages

\* whether the response to an updates request may hold a full page of playlists
UpdatesMayMore == NPages + 1 < MaxUpdatePages

\* the items yielded so far
NYielded == Cardinality({i \in 1..Len(log) : log[i].e = "yield"})

Init ==
    /\ op \in Ops
    /\ pc = "start"
    /\ ret = "done"
    /\ offset \in (IF op \in IterOps \cup {"get_popular_iter"} THEN 0..MaxOffset ELSE {0})
    /\ count \in (IF op = "search" THEN 0..MaxCount ELSE {0})
    /\ album_id \in (IF op = "get_iter" THEN {0, 5} ELSE {0})
    /\ playlist = NoPlaylist
    /\ ids = <<>>
    /\ offset_left = 0
    /\ page_offset = 0
    /\ has_more = FALSE
    /\ albums = <<>>
    /\ json_response = NoJson
    /\ audio_data \in (IF op = "scrap_ids" THEN ScrapInputs ELSE {<<>>})
    /\ st_ids \in (IF op = "scrap_tracks" THEN {DirectIds(n) : n \in 0..MaxIds} ELSE {<<>>})
    /\ group = 0
    /\ delay = 0
    /\ result = NoResult
    /\ data_audio = <<>>
    /\ last_request = 0
    /\ now = StartTime
    /\ t_send = 0
    /\ t_recv = 0
    /\ t_prev = 0
    /\ log = <<>>
    /\ exc = "none"
    /\ retval = NoRetval

----------------------------------------------------------------------------
(* The consumer of the generators *)

EntryPc(o) ==
    CASE o \in IterOps -> "ip_first"
      [] o = "get_iter" -> "gi_req"
      [] o = "get_albums_iter" -> "al_req"
      [] o = "get_audio_by_id" -> "ab_get"
      [] o = "get_updates_iter" -> "up_first"
      [] o = "get_popular_iter" -> "po_first"
      [] o = "scrap_ids" -> "si_call"
      [] OTHER -> "st_loop"

\* whether the consumer asks for another item: islice(search_iter(..), count)
\* stops asking after count items, every other consumer exhausts the generator
ConsumerWants == op = "search" => IsliceWants(NYielded, count)

\* the first next() on the generator (the call, for get_audio_by_id)
Start ==
    /\ pc = "start"
    /\ ConsumerWants
    /\ pc' = EntryPc(op)
    /\ UNCHANGED <<argVars, json_response, ret, callerVars, scrapVars, clockVars, log, exc, retval>>

\* a later next(): the generator goes on after its yield
Resume ==
    /\ pc = "yielded"
    /\ op # "get_audio_by_id"
    /\ ConsumerWants
    /\ pc' = IF op = "get_albums_iter" THEN "al_yield" ELSE "st_yield"
    /\ UNCHANGED <<argVars, json_response, ret, callerVars, scrapVars, clockVars, log, exc, retval>>

\* islice has handed out count items: it ends without touching the generator
IsliceStop ==
    /\ pc \in {"start", "yielded"}
    /\ ~ConsumerWants
    /\ pc' = "stopped"
    /\ UNCHANGED <<argVars, json_response, ret, callerVars, scrapVars, clockVars, log, exc, retval>>

----------------------------------------------------------------------------
(* scrap_tracks *)

\* the state of a fresh scrap_tracks(idlist, ..) generator, resumed at once
CallScrapTracks(idlist, back) ==
    /\ st_ids' = idlist
    /\ group' = 0
    /\ last_request' = 0
    /\ delay' = 0
    /\ result' = NoResult
    /\ data_audio' = <<>>
    /\ ret' = back
    /\ pc' = "st_loop"

\* the head of the for loop: the next ids_group and its delay, or exhaustion
StLoop ==
    /\ pc = "st_loop"
    /\ IF group = NGroups(st_ids)
       THEN /\ pc' = ret
            /\ UNCHANGED <<group, delay>>
       ELSE /\ group' = group + 1
            /\ delay' = Delay(now, last_request)
            /\ pc' = IF Delay(now, last_request) > 0 THEN "st_sleep" ELSE "st_post"
    /\ UNCHANGED <<argVars, json_response, ret, callerVars, st_ids, result, data_audio, last_request,
                   clockVars, log, exc, retval>>

\* time.sleep(delay) returns after at least delay
StSleep ==
    /\ pc = "st_sleep"
    /\ \E over \in 0..MaxOversleep : now' = now + delay + over
    /\ pc' = "st_post"
    /\ UNCHANGED <<argVars, json_response, ret, callerVars, scrapVars, t_send, t_recv, t_prev,
                   log, exc, retval>>

\* http.post(.. reload_audios ..) and its response
StPost ==
    /\ pc = "st_post"
    /\ \E r \in ReloadResponses(IdsGroup(st_ids, group)) :
         /\ result' = r
         /\ log' = Append(log, PostEv("reload_audios", 0, 0, IdsGroup(st_ids, group),
                                      ReloadResp(r)))
    /\ t_send' = now
    /\ t_prev' = t_recv
    /\ t_recv' = now
    /\ pc' = "st_recvd"
    /\ UNCHANGED <<argVars, json_response, ret, callerVars, st_ids, group, delay, data_audio,
                   last_request, now, exc, retval>>

\* StProcess without the update of last_request
StProcessStale ==
    /\ pc = "st_recvd"
    /\ data_audio' = IF result.payload THEN result.audios ELSE <<>>
    /\ pc' = "st_yield"
    /\ UNCHANGED <<argVars, json_response, ret, callerVars, st_ids, group, delay, result, last_request,
                   clockVars, log, exc, retval>>

\* last_request = time.time(); data_audio = result['payload'][1][0]
StProcess ==
    /\ pc = "st_recvd"
    /\ last_request' = now
    /\ data_audio' = IF result.payload THEN result.audios ELSE <<>>
    /\ pc' = "st_yield"
    /\ UNCHANGED <<argVars, json_response, ret, callerVars, st_ids, group, delay, result,
                   clockVars, log, exc, retval>>

\* for audio in data_audio: yield {...}
StYield ==
    /\ pc = "st_yield"
    /\ IF Len(data_audio) = 0
       THEN /\ pc' = "st_loop"
            /\ UNCHANGED <<data_audio, log>>
       ELSE /\ log' = Append(log, YieldEv(TrackOf(Head(data_audio)).id,
                                          TrackOf(Head(data_audio)).owner_id))
            /\ data_audio' = Tail(data_audio)
            /\ pc' = "yielded"
    /\ UNCHANGED <<argVars, json_response, ret, callerVars, st_ids, group, delay, result,
                   last_request, clockVars, exc, retval>>

\* time passes while the response is processed and while the consumer holds a
\* track; it is observed only by the next ids_group of the same call
Tick ==
    /\ pc \in {"st_recvd", "yielded"}
    /\ group < NGroups(st_ids)
    /\ now - t_recv < MaxElapsed
    /\ now' = now + 1
    /\ UNCHANGED <<argVars, json_response, pc, ret, callerVars, scrapVars, t_send, t_recv, t_prev,
                   log, exc, retval>>

----------------------------------------------------------------------------
(* _iter_playlist_by_response (search_iter, get_news_iter, search) *)

Raise(e) ==
    /\ exc' = e
    /\ pc' = "raised"

\* first_playlist(): post the section request and pick the target playlist;
\* on RetryAudioRequest go to `retry', or raise when `retry' is "raised"
first_playlist(retry) ==
    \E r \in SectionResponses(Wanted(op), Unwanted(op), 0, MayMore) :
        LET got == get_target_playlist_from_json(r, Targets(op))
        IN  /\ log' = Append(log, PostEv("section", 0, 0, <<>>,
                                         SectionResp(r, Targets(op))))
            /\ IF got.raise
               THEN /\ IF retry = "raised"
                       THEN Raise("RetryAudioRequest")
                       ELSE pc' = retry /\ exc' = exc
                    /\ UNCHANGED playlist
               ELSE /\ playlist' = got.playlist
                    /\ pc' = "ip_loop"
                    /\ exc' = exc

\* IterFirst without the except clause
IterFirstNoRetry ==
    /\ pc = "ip_first"
    /\ first_playlist("raised")
    /\ UNCHANGED <<argVars, json_response, ret, ids, offset_left, page_offset, has_more, albums,
                   scrapVars, clockVars, retval>>

\* try: playlist = first_playlist()
IterFirst ==
    /\ pc = "ip_first"
    /\ first_playlist("ip_retry")
    /\ UNCHANGED <<argVars, json_response, ret, ids, offset_left, page_offset, has_more, albums,
                   scrapVars, clockVars, retval>>

\* except RetryAudioRequest: playlist = first_playlist()
IterRetry ==
    /\ pc = "ip_retry"
    /\ first_playlist("raised")
    /\ UNCHANGED <<argVars, json_response, ret, ids, offset_left, page_offset, has_more, albums,
                   scrapVars, clockVars, retval>>

\* the ids of a page that are passed on to scrap_tracks
SliceIds(page_ids, left, off) ==
    IF left < off THEN Drop(page_ids, off - left) ELSE page_ids

\* whether a page's tracks are scraped at all
PageReached(page_ids, left, off) == left + Len(page_ids) >= off

\* while playlist: ids = scrap_ids(..); the offset test; scrap_tracks(ids, ..)
IterLoop ==
    /\ pc = "ip_loop"
    /\ LET page_ids == scrap_ids(playlist.list)
       IN  IF ~playlist.some \/ Len(page_ids) = 0
           THEN /\ pc' = "done"
                /\ UNCHANGED <<ids, ret, scrapVars>>
           ELSE IF PageReached(page_ids, offset_left, offset)
                THEN /\ ids' = SliceIds(page_ids, offset_left, offset)
                     /\ CallScrapTracks(SliceIds(page_ids, offset_left, offset),
                                        "ip_after")
                ELSE /\ ids' = page_ids
                     /\ pc' = "ip_after"
                     /\ UNCHANGED <<ret, scrapVars>>
    /\ UNCHANGED <<argVars, json_response, playlist, offset_left, page_offset, has_more, albums,
                   clockVars, log, exc, retval>>

\* the two fields swapped
ContinuationDataSwapped(pl) == [section_id |-> pl.nextOffset, start_from |-> pl.id]

\* data = {.. 'section_id': playlist['id'], 'start_from': playlist['nextOffset']}
ContinuationData(pl) == [section_id |-> pl.id, start_from |-> pl.nextOffset]

\* IterAfter with the load_catalog_section request sent again after the error shape
IterAfterRetried ==
    /\ pc = "ip_after"
    /\ IF ~playlist.hasMore
       THEN /\ pc' = "done"
            /\ offset_left' = offset_left + Len(ids)
            /\ UNCHANGED <<playlist, log, exc>>
       ELSE \E r \in SectionResponses(Wanted(op), Unwanted(op),
                                      ContinuationData(playlist).start_from, MayMore) :
              LET got == get_target_playlist_from_json(r, Targets(op))
              IN  /\ log' = Append(log, PostEv("load_catalog_section",
                                               ContinuationData(playlist).section_id,
                                               ContinuationData(playlist).start_from,
                                               <<>>, SectionResp(r, Targets(op))))
                  /\ IF got.raise
                     THEN /\ IF \E i \in 1..Len(log) : log[i].act = "load_catalog_section"
                                                        /\ log[i].resp.kind = "err"
                             THEN Raise("RetryAudioRequest")
                             ELSE pc' = "ip_after" /\ exc' = exc
                          /\ UNCHANGED <<playlist, offset_left>>
                     ELSE /\ playlist' = got.playlist
                          /\ offset_left' = offset_left + Len(ids)
                          /\ pc' = "ip_loop"
                          /\ exc' = exc
    /\ UNCHANGED <<argVars, json_response, ret, ids, page_offset, has_more, albums,
                   scrapVars, clockVars, retval>>

\* offset_left += len(ids); the hasMore test; the load_catalog_section request
IterAfter ==
    /\ pc = "ip_after"
    /\ offset_left' = offset_left + Len(ids)
    /\ IF ~playlist.hasMore
       THEN /\ pc' = "done"
            /\ UNCHANGED <<playlist, log, exc>>
       ELSE \E r \in SectionResponses(Wanted(op), Unwanted(op),
                                      ContinuationData(playlist).start_from, MayMore) :
              LET got == get_target_playlist_from_json(r, Targets(op))
              IN  /\ log' = Append(log, PostEv("load_catalog_section",
                                               ContinuationData(playlist).section_id,
                                               ContinuationData(playlist).start_from,
                                               <<>>, SectionResp(r, Targets(op))))
                  /\ IF got.raise
                     THEN Raise("RetryAudioRequest") /\ UNCHANGED playlist
                     ELSE /\ playlist' = got.playlist
                          /\ pc' = "ip_loop"
                          /\ exc' = exc
    /\ UNCHANGED <<argVars, json_response, ret, ids, page_offset, has_more, albums,
                   scrapVars, clockVars, retval>>

----------------------------------------------------------------------------
(* get_iter *)

\* offset_diff taken from the album list's page size
OffsetDiffAlbums(album) == ALBUMS_PER_USER_PAGE

\* offset_diff
OffsetDiff(album) == IF album # 0 THEN TRACKS_PER_ALBUM_PAGE ELSE TRACKS_PER_USER_PAGE

\* the AccessDenied test made for the first page only
DeniedFirstPage(data0, page_off) == ~data0 /\ page_off = 0

\* if not response['data'][0]: raise AccessDenied (on the page at any offset)
Denied(data0, page_off) == ~data0

\* the load_section request, the AccessDenied test, scrap_ids, scrap_tracks
GetIterRequest ==
    /\ pc = "gi_req"
    /\ \E r \in LoadSectionResponses(page_offset, MayMore) :
         /\ log' = Append(log, PostEv("load_section", page_offset,
                                      IF album_id # 0 THEN album_id ELSE -1, <<>>,
                                      LoadSectionResp(r)))
         /\ IF Denied(r.data0, page_offset)
            THEN /\ Raise("AccessDenied")
                 /\ UNCHANGED <<ids, has_more, ret, scrapVars>>
            ELSE IF Len(scrap_ids(r.list)) = 0
            THEN /\ pc' = "done"
                 /\ UNCHANGED <<ids, has_more, ret, scrapVars, exc>>
            ELSE /\ ids' = scrap_ids(r.list)
                 /\ has_more' = r.hasMore
                 /\ CallScrapTracks(scrap_ids(r.list), "gi_after")
                 /\ exc' = exc
    /\ UNCHANGED <<argVars, json_response, playlist, offset_left, page_offset, albums, clockVars, retval>>

\* if response['data'][0]['hasMore']: offset += offset_diff, else: break
GetIterAfter ==
    /\ pc = "gi_after"
    /\ IF has_more
       THEN /\ page_offset' = page_offset + OffsetDiff(album_id)
            /\ pc' = "gi_req"
       ELSE /\ pc' = "done"
            /\ UNCHANGED page_offset
    /\ UNCHANGED <<argVars, json_response, ret, playlist, ids, offset_left, has_more, albums,
                   scrapVars, clockVars, log, exc, retval>>

----------------------------------------------------------------------------
(* get_albums_iter *)

\* the page request, the AccessDenied test, scrap_albums
AlbumsRequest ==
    /\ pc = "al_req"
    /\ \E text \in AlbumPages(page_offset, MayMore) :
         /\ log' = Append(log, PostEv("audio_playlists", page_offset, 0, <<>>,
                                      AlbumsResp(text)))
         /\ IF ~Truthy(text)
            THEN Raise("AccessDenied") /\ UNCHANGED albums
            ELSE IF Len(scrap_albums(text)) = 0
            THEN pc' = "done" /\ UNCHANGED <<albums, exc>>
            ELSE /\ albums' = scrap_albums(text)
                 /\ pc' = "al_yield"
                 /\ exc' = exc
    /\ UNCHANGED <<argVars, json_response, ret, playlist, ids, offset_left, page_offset, has_more,
                   scrapVars, clockVars, retval>>

\* for i in albums: yield i; then offset += ALBUMS_PER_USER_PAGE
AlbumsYield ==
    /\ pc = "al_yield"
    /\ IF Len(albums) = 0
       THEN /\ page_offset' = page_offset + ALBUMS_PER_USER_PAGE
            /\ pc' = "al_req"
            /\ UNCHANGED <<albums, log>>
       ELSE /\ log' = Append(log, YieldEv(Head(albums).id, Head(albums).owner_id))
            /\ albums' = Tail(albums)
            /\ pc' = "yielded"
            /\ UNCHANGED page_offset
    /\ UNCHANGED <<argVars, json_response, ret, playlist, ids, offset_left, has_more,
                   scrapVars, clockVars, exc, retval>>

----------------------------------------------------------------------------
(* get_audio_by_id *)

\* the page request, scrap_ids_from_html, track = scrap_tracks(..), if track:
AudioByIdGet ==
    /\ pc = "ab_get"
    /\ \E html \in AudioPages :
         /\ log' = Append(log, PostEv("audio", 0, 0, <<>>,
                                      Resp(IF html.root THEN "page" ELSE "noroot", FALSE,
                                           IdKeys(scrap_ids_from_html(html)), 0, 0)))
         /\ IF ~html.root
            THEN /\ Raise("ValueError")
                 /\ UNCHANGED <<ids, ret, scrapVars, retval>>
            ELSE /\ ids' = scrap_ids_from_html(html)
                 /\ exc' = exc
                 /\ IF GeneratorTruthy
                    THEN /\ CallScrapTracks(scrap_ids_from_html(html), "ab_exhausted")
                         /\ UNCHANGED retval
                    ELSE /\ retval' = [kind |-> "list", track |-> <<>>]
                         /\ pc' = "returned"
                         /\ UNCHANGED <<ret, scrapVars>>
    /\ UNCHANGED <<argVars, json_response, playlist, offset_left, page_offset, has_more, albums,
                   clockVars>>

\* next(track) got a track: return it
AudioByIdReturn ==
    /\ pc = "yielded"
    /\ op = "get_audio_by_id"
    /\ retval' = [kind |-> "track", track |-> <<log[Len(log)].a, log[Len(log)].b>>]
    /\ pc' = "returned"
    /\ UNCHANGED <<argVars, json_response, ret, callerVars, scrapVars, clockVars, log, exc>>

\* next(track) on a generator that ends without a track: StopIteration
AudioByIdStop ==
    /\ pc = "ab_exhausted"
    /\ Raise("StopIteration")
    /\ UNCHANGED <<argVars, json_response, ret, callerVars, scrapVars, clockVars, log, retval>>

----------------------------------------------------------------------------
(* scrap_ids, called directly *)

\* ids = scrap_ids(audio_data)
ScrapIdsCall ==
    /\ pc = "si_call"
    /\ ids' = scrap_ids(audio_data)
    /\ pc' = "returned"
    /\ UNCHANGED <<argVars, json_response, ret, playlist, offset_left, page_offset,
                   has_more, albums, scrapVars, clockVars, log, exc, retval>>

----------------------------------------------------------------------------
(* get_updates_iter *)

\* updates = [i['list'] for i in json_response['payload'][1][1]['playlists']]
UpdatesOf(json) == [i \in 1..Len(json.playlists) |-> json.playlists[i].list]

RECURSIVE AllTracksOf(_)
\* every track of every update playlist
AllTracksOf(updates) ==
    IF Len(updates) = 0 THEN <<>> ELSE Head(updates) \o AllTracksOf(Tail(updates))

RECURSIVE FirstsOf(_)
\* [i[0] for i in updates if i]
FirstsOf(updates) ==
    IF Len(updates) = 0 THEN <<>>
    ELSE (IF Len(Head(updates)) > 0 THEN <<Head(updates)[1]>> ELSE <<>>)
         \o FirstsOf(Tail(updates))

\* a track of a response as the log names it: its id, its owner, whether it has a hash
LogTrack(track) == <<track.t0.n, track.t1.n, PyTruthy(track.t24)>>

\* the log's record of an updates section
UpdatesResp(r) ==
    [Resp(IF r.err THEN "err" ELSE "updates", FALSE, <<>>, r.sectionId, r.nextFrom)
       EXCEPT !.lists = [i \in 1..Len(r.playlists) |->
                           [j \in 1..Len(r.playlists[i].list) |->
                              LogTrack(r.playlists[i].list[j])]]]

\* the section=updates request
UpdatesFirst ==
    /\ pc = "up_first"
    /\ \E r \in UpdatesResponses(0, UpdatesMayMore) :
         /\ log' = Append(log, PostEv("section", 0, 0, <<>>, UpdatesResp(r)))
         /\ json_response' = r
    /\ pc' = "up_loop"
    /\ UNCHANGED <<argVars, ret, callerVars, scrapVars, clockVars, exc, retval>>

\* while True: updates, ids = scrap_ids(..), if not ids: break, scrap_tracks(ids, ..);
\* the error shape has no 'playlists' to index
UpdatesLoop ==
    /\ pc = "up_loop"
    /\ IF json_response.err
       THEN /\ Raise("TypeError")
            /\ UNCHANGED <<ids, ret, scrapVars>>
       ELSE /\ exc' = exc
            /\ IF Len(scrap_ids(FirstsOf(UpdatesOf(json_response)))) = 0
               THEN /\ pc' = "done"
                    /\ UNCHANGED <<ids, ret, scrapVars>>
               ELSE /\ ids' = scrap_ids(FirstsOf(UpdatesOf(json_response)))
                    /\ CallScrapTracks(scrap_ids(FirstsOf(UpdatesOf(json_response))),
                                       "up_after")
    /\ UNCHANGED <<argVars, json_response, playlist, offset_left, page_offset, has_more,
                   albums, clockVars, log, retval>>

\* if len(updates) < 11: break; the load_catalog_section request
UpdatesAfter ==
    /\ pc = "up_after"
    /\ IF Len(UpdatesOf(json_response)) < UPDATES_FULL_PAGE
       THEN /\ pc' = "done"
            /\ UNCHANGED <<json_response, log>>
       ELSE /\ \E r \in UpdatesResponses(json_response.nextFrom, UpdatesMayMore) :
                 /\ log' = Append(log, PostEv("load_catalog_section",
                                              json_response.sectionId,
                                              json_response.nextFrom, <<>>,
                                              UpdatesResp(r)))
                 /\ json_response' = r
            /\ pc' = "up_loop"
    /\ UNCHANGED <<argVars, ret, callerVars, scrapVars, clockVars, exc, retval>>

----------------------------------------------------------------------------
(* get_popular_iter *)

\* the explore page request; playlist = json_response[..]['playlist']
PopularFirst ==
    /\ pc = "po_first"
    /\ \E r \in PopularResponses :
         /\ log' = Append(log, PostEv("explore", 0, 0, <<>>,
                                      IF r.playlist.some
                                      THEN Resp("page", FALSE,
                                                IdKeys(scrap_ids(r.playlist.list)), 0, 0)
                                      ELSE Resp("none", FALSE, <<>>, r.sectionId, 0)))
         /\ json_response' = [NoJson EXCEPT !.sectionId = r.sectionId]
         /\ playlist' = r.playlist
         /\ pc' = IF r.playlist.some THEN "po_scrap" ELSE "po_catalog"
    /\ UNCHANGED <<argVars, ret, ids, offset_left, page_offset, has_more, albums,
                   scrapVars, clockVars, exc, retval>>

\* if not playlist: the load_catalog_section request, get_target_playlist_from_json
PopularCatalog ==
    /\ pc = "po_catalog"
    /\ \E r \in SectionResponses(Wanted(op), Unwanted(op), 0, FALSE) :
         LET got == get_target_playlist_from_json(r, Targets(op))
         IN  /\ log' = Append(log, PostEv("load_catalog_section",
                                          json_response.sectionId, 0, <<>>,
                                          SectionResp(r, Targets(op))))
             /\ IF got.raise
                THEN Raise("RetryAudioRequest") /\ UNCHANGED playlist
                ELSE /\ playlist' = got.playlist
                     /\ pc' = "po_scrap"
                     /\ exc' = exc
    /\ UNCHANGED <<argVars, json_response, ret, ids, offset_left, page_offset, has_more,
                   albums, scrapVars, clockVars, retval>>

\* ids = scrap_ids(playlist['list']); scrap_tracks(ids[offset:] if offset else ids, ..);
\* playlist is None when the catalog held no chart
PopularScrap ==
    /\ pc = "po_scrap"
    /\ IF ~playlist.some
       THEN /\ Raise("TypeError")
            /\ UNCHANGED <<ids, ret, scrapVars>>
       ELSE /\ exc' = exc
            /\ ids' = scrap_ids(playlist.list)
            /\ CallScrapTracks(IF offset # 0
                               THEN Drop(scrap_ids(playlist.list), offset)
                               ELSE scrap_ids(playlist.list),
                               "done")
    /\ UNCHANGED <<argVars, json_response, playlist, offset_left, page_offset, has_more,
                   albums, clockVars, log, retval>>

----------------------------------------------------------------------------

Next ==
    \/ Start
    \/ Resume
    \/ IsliceStop
    \/ StLoop
    \/ StSleep
    \/ StPost
    \/ StProcess
    \/ StYield
    \/ Tick
    \/ IterFirst
    \/ IterRetry
    \/ IterLoop
    \/ IterAfter
    \/ GetIterRequest
    \/ GetIterAfter
    \/ AlbumsRequest
    \/ AlbumsYield
    \/ AudioByIdGet
    \/ AudioByIdReturn
    \/ AudioByIdStop
    \/ ScrapIdsCall
    \/ UpdatesFirst
    \/ UpdatesLoop
    \/ UpdatesAfter
    \/ PopularFirst
    \/ PopularCatalog
    \/ PopularScrap

Spec == Init /\ [][Next]_vars

----------------------------------------------------------------------------
(* Reading the log *)

\* the places of the requests of the given kinds
PostsOf(acts) == {i \in 1..Len(log) : log[i].e = "post" /\ log[i].act \in acts}

Yields == {i \in 1..Len(log) : log[i].e = "yield"}

\* how many members of S are at or before place i
RankIn(S, i) == Cardinality({j \in S : j <= i})

\* the first member of S after place i; Len(log) + 1 when there is none
NextIn(S, i) ==
    IF \E j \in S : j > i
    THEN CHOOSE j \in S : j > i /\ \A k \in S : k > i => j <= k
    ELSE Len(log) + 1

\* the last member of S before place j (there is one)
PrevIn(S, j) == CHOOSE i \in S : i < j /\ \A k \in S : k < j => k <= i

RECURSIVE YieldedIn(_, _)
\* the items yielded strictly between the places i and j
YieldedIn(i, j) ==
    IF i + 1 >= j THEN <<>>
    ELSE (IF log[i + 1].e = "yield" THEN <<Key(log[i + 1].a, log[i + 1].b)>> ELSE <<>>)
         \o YieldedIn(i + 1, j)

RECURSIVE ReturnedIn(_, _)
\* the tracks the reload_audios responses strictly between i and j returned
ReturnedIn(i, j) ==
    IF i + 1 >= j THEN <<>>
    ELSE (IF log[i + 1].e = "post" /\ log[i + 1].act = "reload_audios"
          THEN log[i + 1].resp.got ELSE <<>>)
         \o ReturnedIn(i + 1, j)

RECURSIVE RequestedIn(_, _)
\* the ids the reload_audios requests strictly between i and j asked for
RequestedIn(i, j) ==
    IF i + 1 >= j THEN <<>>
    ELSE (IF log[i + 1].e = "post" /\ log[i + 1].act = "reload_audios"
          THEN IdKeys(log[i + 1].ids) ELSE <<>>)
         \o RequestedIn(i + 1, j)

RECURSIVE ReceivedIn(_, _)
\* the valid ids of the target playlist's pages received strictly between i and j
ReceivedIn(i, j) ==
    IF i + 1 >= j THEN <<>>
    ELSE (IF log[i + 1].e = "post" /\ log[i + 1].act \in {"section", "load_catalog_section"}
          THEN log[i + 1].resp.got ELSE <<>>)
         \o ReceivedIn(i + 1, j)

End == Len(log) + 1

SectionPosts == PostsOf({"section"})
PagePosts == PostsOf({"section", "load_catalog_section"})
LoadPosts == PostsOf({"load_section"})
AlbumPosts == PostsOf({"audio_playlists"})
ReloadPosts == PostsOf({"reload_audios"})

----------------------------------------------------------------------------
(* Claims *)

\* C1: in _iter_playlist_by_response the first section request is sent at
\* most twice; it is sent a second time exactly when its first response had
\* the error shape; when the second response has the error shape too,
\* RetryAudioRequest reaches the caller and nothing was yielded.
C1_SingleRetry ==
    op \in IterOps =>
        /\ Cardinality(SectionPosts) <= 2
        /\ Cardinality(SectionPosts) = 2 =>
               SectionPosts = {1, 2} /\ log[1].resp.kind = "err"
        /\ (SectionPosts # {} /\ log[1].resp.kind = "err" /\ pc # "ip_retry") =>
               Cardinality(SectionPosts) = 2
        /\ (Cardinality(SectionPosts) = 2 /\ log[2].resp.kind = "err") =>
               /\ pc = "raised"
               /\ exc = "RetryAudioRequest"
               /\ Yields = {}
               /\ Len(log) = 2

\* both section requests got the error shape and the iteration raised
C1_Witness ==
    /\ op \in IterOps
    /\ Len(log) = 2
    /\ log[1].act = "section" /\ log[1].resp.kind = "err"
    /\ log[2].act = "section" /\ log[2].resp.kind = "err"
    /\ exc = "RetryAudioRequest"

\* C2: search_iter(q, offset=k) and get_news_iter(offset=k), run to the end
\* with every reload_audios answered in full, yield exactly the tracks of the
\* received target playlist from position k on: the first k valid ids are
\* skipped and nothing else.
C2_OffsetSkipsExactly ==
    ( /\ op \in {"search_iter", "get_news_iter"}
      /\ pc = "done"
      /\ \A i \in ReloadPosts : log[i].resp.kind = "payload" )
    => YieldedIn(0, End) = Drop(ReceivedIn(0, End), offset)

\* C3: within one scrap_tracks call a reload_audios request that follows
\* another one is sent at least RPS_DELAY_RELOAD_AUDIO after the response to
\* the earlier one arrived, however long the consumer held the tracks.
C3_ReloadDelay ==
    (pc = "st_recvd" /\ group > 1) => t_send - t_prev >= RPS_DELAY_RELOAD_AUDIO

\* the second request of a call went out after a sleep, exactly on the delay
C3_Witness ==
    /\ pc = "st_recvd"
    /\ group = 2
    /\ delay > 0
    /\ t_send - t_prev = RPS_DELAY_RELOAD_AUDIO

\* C4: search(q, count, offset) hands out at most count tracks, the ones its
\* search_iter generator yields, one for one; it stops only when count tracks
\* were handed out, and after the count-th track no request is sent.
C4_SearchTakesCount ==
    op = "search" =>
        /\ Cardinality(Yields) <= count
        /\ Cardinality(Yields) = count =>
               IF count = 0 THEN Len(log) = 0 ELSE log[Len(log)].e = "yield"
        /\ pc = "stopped" => Cardinality(Yields) = count
        /\ pc \in {"done", "raised"} => Cardinality(Yields) < count

\* search stopped after its count-th track although the generator held more
C4_Witness ==
    /\ op = "search"
    /\ pc = "stopped"
    /\ count = 1
    /\ Len(data_audio) > 0
    /\ playlist.hasMore

\* C5: get_iter sends its n-th load_section request with offset (n-1)*2000;
\* a further page is requested only after a page with hasMore and valid ids,
\* and only after all ids of that page were reloaded and every track returned
\* for them was yielded; a page without valid ids ends the iteration at once,
\* a page without hasMore ends it after its tracks.
C5_GetIterPages ==
    op = "get_iter" =>
        \A i \in LoadPosts :
            LET nxt == NextIn(LoadPosts, i)
                r == log[i].resp
            IN  /\ log[i].a = (RankIn(LoadPosts, i) - 1) * 2000
                /\ nxt <= Len(log) =>
                       /\ r.kind = "page" /\ r.more /\ Len(r.got) > 0
                       /\ RequestedIn(i, nxt) = r.got
                       /\ YieldedIn(i, nxt) = ReturnedIn(i, nxt)
                /\ (r.kind = "page" /\ Len(r.got) = 0) => (i = Len(log) /\ pc = "done")
                /\ (r.kind = "page" /\ ~r.more) => nxt = End
                /\ (pc = "done" /\ nxt = End) =>
                       /\ r.kind = "page" /\ (~r.more \/ Len(r.got) = 0)
                       /\ RequestedIn(i, End) = r.got
                       /\ YieldedIn(i, End) = ReturnedIn(i, End)

\* get_iter ended after a second page, whose tracks it yielded
C5_Witness ==
    /\ op = "get_iter"
    /\ pc = "done"
    /\ Cardinality(LoadPosts) = 2
    /\ log[1].a = 0
    /\ \E i \in LoadPosts : log[i].a = 2000 /\ Len(YieldedIn(i, End)) > 0

\* C6: get_iter raises AccessDenied exactly when a load_section response has a
\* falsy data[0], on whatever page; the failing request is the last one, and
\* the tracks of the pages before it were yielded.
C6_AccessDenied ==
    op = "get_iter" =>
        /\ (exc = "AccessDenied") <=> (\E i \in LoadPosts : log[i].resp.kind = "denied")
        /\ \A i \in LoadPosts : log[i].resp.kind = "denied" =>
               /\ i = Len(log)
               /\ pc = "raised"
               /\ YieldedIn(0, i) = ReturnedIn(0, i)

\* access was denied on the second page, after tracks of the first
C6_Witness ==
    /\ op = "get_iter"
    /\ exc = "AccessDenied"
    /\ Cardinality(LoadPosts) = 2
    /\ Yields # {}

\* C7: get_audio_by_id returns the first scraped track when there is one, and
\* returns an empty list, raising nothing, when no track is found (no valid id
\* on the page, or no track in the reload_audios response).
C7_AudioByIdReturns ==
    (op = "get_audio_by_id" /\ pc \in {"returned", "raised"} /\ exc # "ValueError") =>
        /\ exc = "none"
        /\ pc = "returned"
        /\ IF Yields # {}
           THEN retval = [kind |-> "track", track |-> YieldedIn(0, End)[1]]
           ELSE retval = [kind |-> "list", track |-> <<>>]

\* C8: get_albums_iter sends its n-th page request with offset (n-1)*100 and
\* yields the albums of each page in order before the next request; it ends
\* without error at the first page with no album and raises AccessDenied
\* exactly at a page with an empty body, so it ends only on such a request.
C8_AlbumsPages ==
    op = "get_albums_iter" =>
        /\ \A i \in AlbumPosts :
               LET nxt == NextIn(AlbumPosts, i)
                   r == log[i].resp
               IN  /\ log[i].a = (RankIn(AlbumPosts, i) - 1) * 100
                   /\ nxt <= Len(log) =>
                          r.kind = "page" /\ Len(r.got) > 0 /\ YieldedIn(i, nxt) = r.got
                   /\ nxt = End =>
                          YieldedIn(i, End) = SubSeq(r.got, 1, Len(YieldedIn(i, End)))
                   /\ (r.kind = "page" /\ Len(r.got) = 0) =>
                          (i = Len(log) /\ pc = "done" /\ exc = "none")
                   /\ r.kind = "denied" =>
                          (i = Len(log) /\ pc = "raised" /\ exc = "AccessDenied")
        /\ (exc = "AccessDenied") <=> (\E i \in AlbumPosts : log[i].resp.kind = "denied")
        /\ pc \in {"done", "raised"} =>
               /\ Len(log) > 0
               /\ log[Len(log)].e = "post"
               /\ Len(log[Len(log)].resp.got) = 0

\* get_albums_iter ended at its second page, after the albums of the first
C8_Witness ==
    /\ op = "get_albums_iter"
    /\ pc = "done"
    /\ Cardinality(AlbumPosts) = 2
    /\ Cardinality(Yields) = 2
    /\ log[Len(log)].a = 100

\* C9: scrap_tracks asks for its n ids in consecutive groups of at most 10,
\* in input order; the tracks returned for a group are yielded before the
\* next request; when exhausted it has sent exactly ceil(n/10) requests.
C9_ScrapTracksGroups ==
    op = "scrap_tracks" =>
        /\ \A i \in ReloadPosts :
               LET g == RankIn(ReloadPosts, i)
                   nxt == NextIn(ReloadPosts, i)
               IN  /\ log[i].ids = SubSeq(st_ids, 10 * (g - 1) + 1,
                                          Min(10 * g, Len(st_ids)))
                   /\ Len(log[i].ids) \in 1..10
                   /\ (nxt <= Len(log) \/ pc = "done") =>
                          YieldedIn(i, nxt) = log[i].resp.got
        /\ 10 * Cardinality(ReloadPosts) < Len(st_ids) + 10
        /\ pc = "done" => Cardinality(ReloadPosts) = (Len(st_ids) + 9) \div 10
        /\ pc = "done" => RequestedIn(0, End) = IdKeys(st_ids)

\* scrap_tracks of 21 ids is exhausted after three requests
C9_Witness ==
    /\ op = "scrap_tracks"
    /\ pc = "done"
    /\ Len(st_ids) = 21
    /\ Cardinality(ReloadPosts) = 3
    /\ Len(log[Len(log) - 1].ids) = 1

\* C10: every load_catalog_section request of _iter_playlist_by_response
\* carries the id and nextOffset of the page received just before it, and that
\* page had hasMore and valid ids; after a response without the target
\* playlist or a page without valid ids nothing more is sent, and after a page
\* without hasMore no further section is requested.
C10_Continuation ==
    op \in IterOps =>
        \A j \in PagePosts :
            LET r == log[j].resp
            IN  /\ log[j].act = "load_catalog_section" =>
                       LET p == log[PrevIn(PagePosts, j)].resp
                       IN  /\ p.kind = "page" /\ p.more /\ Len(p.got) > 0
                           /\ log[j].a = p.rid
                           /\ log[j].b = p.rnext
                /\ (r.kind = "none" \/ (r.kind = "page" /\ Len(r.got) = 0)) =>
                       (j = Len(log) /\ pc \in {"ip_loop", "done"})
                /\ (r.kind = "page" /\ ~r.more) => NextIn(PagePosts, j) = End

\* two continuation requests were sent, then the playlist ended
C10_Witness ==
    /\ op \in IterOps
    /\ pc = "done"
    /\ Cardinality(PostsOf({"load_catalog_section"})) = 2
    /\ \E j \in PagePosts : log[j].act = "load_catalog_section" /\ log[j].b > 2
    /\ Yields # {}

\* an empty string, a zero or None
Falsy(v) == v.ty = "None" \/ (v.ty = "str" /\ v.s = <<>>) \/ (v.ty = "int" /\ v.n = 0)

\* the places of the input tracks whose triple has no falsy component
KeptTracks ==
    {i \in 1..Len(audio_data) :
        /\ ~Falsy(Str(audio_data[i].t1))
        /\ ~Falsy(Str(audio_data[i].t0))
        /\ ~Falsy(audio_data[i].t24)}

\* C12: scrap_ids returns, in input order, the triple (str(track[1]),
\* str(track[0]), track[24]) of exactly the input tracks whose triple has three
\* truthy components; no returned triple has an empty or missing hash.
C12_ScrapIdsFilter ==
    (op = "scrap_ids" /\ pc = "returned") =>
        /\ Len(ids) = Cardinality(KeptTracks)
        /\ \A i \in KeptTracks :
               ids[RankIn(KeptTracks, i)]
                   = <<Str(audio_data[i].t1), Str(audio_data[i].t0), audio_data[i].t24>>
        /\ \A k \in 1..Len(ids) : ids[k][3].ty = "str" /\ Len(ids[k][3].s) > 0

\* three tracks went in, the middle one without a hash and the last one with
\* the owner None: the first and the last came out
C12_Witness ==
    /\ op = "scrap_ids" /\ pc = "returned"
    /\ Len(audio_data) = 3
    /\ KeptTracks = {1, 3}
    /\ audio_data[2].t24 = PyNone /\ audio_data[2].t0.ty = "int"
    /\ audio_data[3].t1 = PyNone
    /\ Len(ids) = 2

RECURSIVE FirstValidOf(_)
\* of the track lists of a logged updates response: the first track of every
\* non-empty list, when it has a hash
FirstValidOf(lists) ==
    IF Len(lists) = 0 THEN <<>>
    ELSE (IF Len(Head(lists)) > 0 /\ Head(lists)[1][3]
          THEN <<Key(Head(lists)[1][1], Head(lists)[1][2])>> ELSE <<>>)
         \o FirstValidOf(Tail(lists))

\* whether get_updates_iter goes on after a logged updates response
UpdatesGoOn(r) == Len(r.lists) >= 11 /\ Len(FirstValidOf(r.lists)) > 0

\* C11: get_updates_iter asks reload_audios for the first track of every
\* non-empty playlist of a response and for no other; the next section is
\* requested, with the sectionId and the nextFrom of the latest response,
\* exactly when that response had at least 11 playlists and gave a valid id;
\* otherwise the iteration ends once that response's tracks were yielded.
C11_UpdatesPaging ==
    op = "get_updates_iter" =>
        \A j \in PagePosts :
            LET r == log[j].resp
                nxt == NextIn(PagePosts, j)
            IN  r.kind = "updates" =>
                  /\ (nxt <= Len(log) \/ pc = "done") =>
                         RequestedIn(j, nxt) = FirstValidOf(r.lists)
                  /\ \A i \in ReloadPosts :
                         (j < i /\ i < nxt) =>
                             \A k \in 1..Len(log[i].ids) :
                                 \E q \in 1..Len(FirstValidOf(r.lists)) :
                                     IdKeys(log[i].ids)[k] = FirstValidOf(r.lists)[q]
                  /\ nxt <= Len(log) =>
                         /\ UpdatesGoOn(r)
                         /\ log[nxt].act = "load_catalog_section"
                         /\ log[nxt].a = r.rid
                         /\ log[nxt].b = r.rnext
                         /\ YieldedIn(j, nxt) = ReturnedIn(j, nxt)
                  /\ (nxt > Len(log) /\ UpdatesGoOn(r)) => pc \notin {"done", "raised"}
                  /\ (nxt > Len(log) /\ pc = "done") =>
                         /\ ~UpdatesGoOn(r)
                         /\ YieldedIn(j, End) = ReturnedIn(j, End)
                  /\ (nxt > Len(log) /\ ~UpdatesGoOn(r)) =>
                         pc # "raised"

\* a first response of 11 or more playlists, an empty one among them, then a
\* second section requested, and the iteration ended after its tracks
C11_Witness ==
    /\ op = "get_updates_iter"
    /\ pc = "done"
    /\ Cardinality(PagePosts) = 2
    /\ Len(log[1].resp.lists) >= 11
    /\ \E i \in 1..Len(log[1].resp.lists) : Len(log[1].resp.lists[i]) = 0
    /\ \E i \in 1..Len(log[1].resp.lists) : Len(log[1].resp.lists[i]) = 2
    /\ \E j \in PagePosts : log[j].act = "load_catalog_section" /\ log[j].b > 0
                            /\ Len(FirstValidOf(log[j].resp.lists)) > 0
    /\ Cardinality(Yields) >= 2

\* the requests that repeat an earlier request of the iteration
Reissued ==
    {j \in 1..Len(log) :
        /\ log[j].e = "post"
        /\ \E i \in 1..(j - 1) :
             /\ log[i].e = "post"
             /\ log[i].act = log[j].act
             /\ log[i].a = log[j].a /\ log[i].b = log[j].b
             /\ log[i].ids = log[j].ids}

\* C13: an error-shaped response to a load_catalog_section request, of
\* _iter_playlist_by_response or of get_popular_iter, is the last thing
\* that happens: the request is not sent again and RetryAudioRequest reaches
\* the consumer, who has by then been given every track of the earlier pages
\* that reload_audios returned; in one iteration at most one request is sent
\* a second time, and it is the first section request after its error response.
C13_RetryOnlyFirst ==
    op \in IterOps \cup {"get_popular_iter"} =>
        /\ \A j \in PostsOf({"load_catalog_section"}) :
               log[j].resp.kind = "err" =>
                   /\ j = Len(log)
                   /\ pc = "raised"
                   /\ exc = "RetryAudioRequest"
                   /\ YieldedIn(0, j) = ReturnedIn(0, j)
        /\ Cardinality(Reissued) <= 1
        /\ \A j \in Reissued :
               j = 2 /\ log[j].act = "section" /\ log[1].resp.kind = "err"

\* the first section request was retried and answered, its page was yielded,
\* and the continuation then got the error shape
C13_Witness ==
    /\ op \in IterOps
    /\ pc = "raised" /\ exc = "RetryAudioRequest"
    /\ Reissued = {2}
    /\ log[Len(log)].act = "load_catalog_section"
    /\ log[Len(log)].resp.kind = "err"
    /\ Cardinality(Yields) >= 2

====
